---------------------------- MODULE Spec2Model ----------------------------
(***************************************************************************)
(* Model of the canvas dashboard: ModernUIEngine (tile grid, hit test,     *)
(* pointer tracker, layered render) and the React component App that       *)
(* mounts it, forwards host pointer events to it and drives the frame      *)
(* loop.                                                                   *)
(*                                                                         *)
(* Coordinates.  The tile width is 800/7 px, so every coordinate of the    *)
(* model is an integer number of "units" of 1/columns px (Px converts).    *)
(* All sums the code forms are then exact integers.  The code computes in  *)
(* IEEE doubles; its rounding error (about 1e-13 px) is far below the      *)
(* distances the properties below depend on (>= 1/7 px).                   *)
(*                                                                         *)
(* null is the empty tuple <<>>, a present value v is <<v>>.               *)
(***************************************************************************)
EXTENDS Integers, Sequences, FiniteSets, TLC

VARIABLES
    phase,            \* App: position of the mount effect / component life cycle
    engineRef,        \* App: engineRef.current is set (an engine was constructed)
    thrown,           \* message of the error thrown so far, "" if none
    tiles,            \* engine: this.tiles
    touch,            \* engine: this.touch (PointerSample), null or <<[x, y, pressure]>>
    activeTileIndex,  \* engine: this.activeTileIndex, null or <<number>>
    displaySize,      \* engine: <<displayWidth, displayHeight>> in px
    resizeListener,   \* host: window holds the 'resize' listener updateCalibration
    cleanup,          \* React: the mount effect returned a cleanup function
    animationRef,     \* App: animationRef.current, 0 for null
    pending,          \* host: handles of the animation-frame callbacks not yet run
    rafCount,         \* host: number of animation-frame handles issued
    frame,            \* what the last render drew, null or <<[layers, active, glow]>>
    lastEvent,        \* the last operation that ran
    engineCalls,      \* engine methods the last App pointer handler invoked
    downSinceEnd,     \* history: a down event ran since the last up/leave event
    pointSinceEnd,    \* history: a down or point-carrying move ran since then
    probe             \* the point handed to the engine when it is driven directly

vars == <<phase, engineRef, thrown, tiles, touch, activeTileIndex, displaySize,
          resizeListener, cleanup, animationRef, pending, rafCount, frame,
          lastEvent, engineCalls, downSinceEnd, pointSinceEnd, probe>>

Null == <<>>

(***************************************************************************)
(* Bounds of the model.                                                    *)
(***************************************************************************)
\* probe offsets, in units, taken on both sides of every tile edge
Near == 1
\* how far, in px, the probed points lie beyond the canvas
Far == 1
\* animation-frame handles the host issues
MaxFrames == 3
\* touch points one touch event carries
MaxTouches == 2

(***************************************************************************)
(* ModernUIEngine: constants of the class and of createTiles.              *)
(***************************************************************************)
width == 1024
height == 1024
columns == 7
rows == 3
paddingX == 64
paddingY == 280
gap == 16
tileHeight == 110

\* px -> units of 1/columns px
Px(n) == n * columns

availableWidth == width - paddingX * 2

\* tileWidth = (availableWidth - gap * (columns - 1)) / columns px, in units
tileWidth == availableWidth - gap * (columns - 1)

\* the tile pushed at (row, col) with running number count, without the gap
TileNoGap(row, col, count) ==
    [x |-> Px(paddingX) + col * tileWidth,
     y |-> Px(paddingY) + row * Px(tileHeight),
     width |-> tileWidth,
     height |-> Px(tileHeight),
     label |-> count,
     badge |-> IF count % 5 = 0 THEN "NEW" ELSE ""]

\* the tile pushed at (row, col), badge decided by the 0-based index
TileBadgeByIndex(row, col, count) ==
    [x |-> Px(paddingX) + col * (tileWidth + Px(gap)),
     y |-> Px(paddingY) + row * (Px(tileHeight) + Px(gap)),
     width |-> tileWidth,
     height |-> Px(tileHeight),
     label |-> count,
     badge |-> IF (count - 1) % 5 = 0 THEN "NEW" ELSE ""]

\* the tile pushed at (row, col) with running number count; label "App <count>"
\* is kept as count, an undefined badge is ""
Tile(row, col, count) ==
    [x |-> Px(paddingX) + col * (tileWidth + Px(gap)),
     y |-> Px(paddingY) + row * (Px(tileHeight) + Px(gap)),
     width |-> tileWidth,
     height |-> Px(tileHeight),
     label |-> count,
     badge |-> IF count % 5 = 0 THEN "NEW" ELSE ""]

\* the two nested for loops of createTiles
RECURSIVE CreateTilesLoop(_, _, _, _)
CreateTilesLoop(row, col, count, acc) ==
    IF row >= rows THEN acc
    ELSE IF col >= columns THEN CreateTilesLoop(row + 1, 0, count, acc)
    ELSE CreateTilesLoop(row, col + 1, count + 1, Append(acc, Tile(row, col, count)))

createTiles == CreateTilesLoop(0, 0, 1, <<>>)

(***************************************************************************)
(* findTileIndex: Array.prototype.findIndex over this.tiles.               *)
(***************************************************************************)
\* the predicate with the right and bottom edges excluded
TileHitHalfOpen(tile, x, y) ==
    /\ x >= tile.x /\ x < tile.x + tile.width
    /\ y >= tile.y /\ y < tile.y + tile.height

\* the predicate of findTileIndex
TileHit(tile, x, y) ==
    /\ x >= tile.x /\ x <= tile.x + tile.width
    /\ y >= tile.y /\ y <= tile.y + tile.height

\* findIndex: the 0-based index of the first element satisfying the predicate, else -1
RECURSIVE FindIndexFrom(_, _, _, _)
FindIndexFrom(ts, i, x, y) ==
    IF i > Len(ts) THEN -1
    ELSE IF TileHit(ts[i], x, y) THEN i - 1
    ELSE FindIndexFrom(ts, i + 1, x, y)

findTileIndex(ts, x, y) == FindIndexFrom(ts, 1, x, y)


(***************************************************************************)
(* The pointer tracker of the engine.                                      *)
(***************************************************************************)
handleTouchStart(x, y, pressure) ==
    /\ touch' = <<[x |-> x, y |-> y, pressure |-> pressure]>>
    /\ activeTileIndex' = <<findTileIndex(tiles, x, y)>>

\* handleTouchMove that refreshes a sample only while one exists
handleTouchMoveWhileTracking(x, y, pressure) ==
    IF touch = Null
    THEN UNCHANGED <<touch, activeTileIndex>>
    ELSE /\ touch' = <<[x |-> x, y |-> y, pressure |-> pressure]>>
         /\ activeTileIndex' = <<findTileIndex(tiles, x, y)>>

handleTouchMove(x, y, pressure) ==
    /\ touch' = <<[x |-> x, y |-> y, pressure |-> pressure]>>
    /\ activeTileIndex' = <<findTileIndex(tiles, x, y)>>

\* handleTouchEnd that forgets to clear the active tile
handleTouchEndKeepsActive ==
    /\ touch' = Null
    /\ UNCHANGED activeTileIndex

handleTouchEnd ==
    /\ touch' = Null
    /\ activeTileIndex' = Null

setCanvasSize(w, h) == displaySize' = <<w, h>>

(***************************************************************************)
(* render: the six draw calls in their order.  A frame records the layers  *)
(* that painted something, the tiles painted in the active style and the   *)
(* centre of the glow.                                                     *)
(***************************************************************************)
\* drawTiles: the indices for which isActive is true
drawTiles == {i \in 0..(Len(tiles) - 1) : <<i>> = activeTileIndex}

\* drawTouchHighlight that paints the glow at the origin when there is no sample
drawTouchHighlightAlways ==
    IF touch = Null THEN <<[x |-> 0, y |-> 0]>>
    ELSE <<[x |-> touch[1].x, y |-> touch[1].y]>>

\* drawTouchHighlight: returns early without a sample, else the centre of the glow
drawTouchHighlight ==
    IF touch = Null THEN Null
    ELSE <<[x |-> touch[1].x, y |-> touch[1].y]>>

render ==
    /\ frame' = <<[layers |-> <<"background", "header", "statusCards", "tiles", "keyboard">>
                               \o (IF drawTouchHighlight = Null THEN <<>> ELSE <<"glow">>),
                   active |-> drawTiles,
                   glow |-> drawTouchHighlight]>>
    /\ UNCHANGED <<tiles, touch, activeTileIndex, displaySize>>

(***************************************************************************)
(* Points handed to the handlers.                                          *)
(***************************************************************************)
ColLeft(col) == Px(paddingX) + col * (tileWidth + Px(gap))
RowTop(row) == Px(paddingY) + row * (Px(tileHeight) + Px(gap))

EdgeXs == UNION {{ColLeft(c), ColLeft(c) + tileWidth} : c \in 0..(columns - 1)}
EdgeYs == UNION {{RowTop(r), RowTop(r) + Px(tileHeight)} : r \in 0..(rows - 1)}

\* every tile edge and its neighbourhood, the canvas border and points beyond it
ProbeXs == {e + d : e \in EdgeXs, d \in (0 - Near)..Near}
              \cup {0 - Px(Far), 0, Px(width), Px(width + Far)}
ProbeYs == {e + d : e \in EdgeYs, d \in (0 - Near)..Near}
              \cup {0 - Px(Far), 0, Px(height), Px(height + Far)}

\* strictly inside tile[3], and in the header above the grid
InsideTile3 == <<ColLeft(3) + 2, RowTop(0) + 2>>
OutsideAllTiles == <<ColLeft(3) + 2, Px(paddingY) - Px(gap)>>

(***************************************************************************)
(* The engine driven directly: constructed, then any sequence of the       *)
(* three pointer handlers on the probe and the two scenario points.        *)
(***************************************************************************)
EngineInit ==
    /\ probe \in {<<x, y>> : x \in ProbeXs, y \in ProbeYs}
    /\ phase = "init"
    /\ engineRef = TRUE
    /\ thrown = ""
    /\ tiles = createTiles
    /\ touch = Null
    /\ activeTileIndex = Null
    /\ displaySize = <<width, height>>
    /\ resizeListener = FALSE
    /\ cleanup = FALSE
    /\ animationRef = 0
    /\ pending = {}
    /\ rafCount = 0
    /\ frame = Null
    /\ lastEvent = "constructor"
    /\ engineCalls = {}
    /\ downSinceEnd = FALSE
    /\ pointSinceEnd = FALSE

appVars == <<phase, engineRef, thrown, resizeListener, cleanup, animationRef,
             pending, rafCount, engineCalls, downSinceEnd, pointSinceEnd, probe>>

EnginePoints == {probe, InsideTile3, OutsideAllTiles}

EngineTouchStart ==
    \E p \in EnginePoints :
        /\ handleTouchStart(p[1], p[2], 10)
        /\ lastEvent' = "handleTouchStart"
        /\ UNCHANGED <<appVars, tiles, displaySize, frame>>

EngineTouchMove ==
    \E p \in EnginePoints :
        /\ handleTouchMove(p[1], p[2], 8)
        /\ lastEvent' = "handleTouchMove"
        /\ UNCHANGED <<appVars, tiles, displaySize, frame>>

EngineTouchEnd ==
    /\ handleTouchEnd
    /\ lastEvent' = "handleTouchEnd"
    /\ UNCHANGED <<appVars, tiles, displaySize, frame>>

EngineNext == EngineTouchStart \/ EngineTouchMove \/ EngineTouchEnd

SpecEngine == EngineInit /\ [][EngineNext]_vars

(***************************************************************************)
(* App: the host side.  A display rectangle is what                        *)
(* canvas.getBoundingClientRect() returns, in px; the two rectangles show  *)
(* the canvas at scale 1 at the origin and at scale 2 with an offset.      *)
(***************************************************************************)
Rects == {[left |-> 0, top |-> 0, width |-> width, height |-> height],
          [left |-> 100, top |-> 50, width |-> width \div 2, height |-> height \div 2]}

\* (client - rect.left) * (dims.width / rect.width), exact on the rectangles above
ToCanvas(client, origin, canvasDim, rectDim) ==
    ((client - Px(origin)) * canvasDim) \div rectDim

\* canvas-space targets of the pointer: the top left corner of tile[0], strictly
\* inside tile[3], the gap right of tile[3], the header above the grid, beyond
\* the canvas
AppPoints == {<<ColLeft(0), RowTop(0)>>,
              InsideTile3,
              <<ColLeft(3) + tileWidth + 2, RowTop(0) + 2>>,
              OutsideAllTiles,
              <<0 - Px(Far), Px(height + Far)>>}

\* the client positions that land on those targets under rectangle r
ClientPoints(r) ==
    {<<Px(r.left) + (p[1] * r.width) \div width, Px(r.top) + (p[2] * r.height) \div height>> :
        p \in {q \in AppPoints : (q[1] * r.width) % width = 0 /\ (q[2] * r.height) % height = 0}}

\* mouse events carry clientX/clientY; touch events carry n touches, the first
\* of which is at clientX/clientY
MouseEvents(r) ==
    {[type |-> "mouse", n |-> 0, clientX |-> c[1], clientY |-> c[2]] : c \in ClientPoints(r)}
TouchEvents(r, least) ==
    {[type |-> "touch", n |-> k, clientX |-> c[1], clientY |-> c[2]] :
        k \in (least..MaxTouches) \ {0}, c \in ClientPoints(r)}
NoTouches == [type |-> "touch", n |-> 0, clientX |-> 0, clientY |-> 0]

(***************************************************************************)
(* App: the three pointer handlers.                                        *)
(***************************************************************************)
App_handleTouchStart(e, rect) ==
    IF ~engineRef
    THEN /\ engineCalls' = {}
         /\ UNCHANGED <<touch, activeTileIndex>>
    ELSE /\ handleTouchStart(ToCanvas(e.clientX, rect.left, width, rect.width),
                             ToCanvas(e.clientY, rect.top, height, rect.height), 10)
         /\ engineCalls' = {"getDimensions", "handleTouchStart"}

\* handleTouchMove that takes an empty touch list for a release
App_handleTouchMoveClearsOnEmpty(e, rect) ==
    IF ~engineRef
    THEN /\ engineCalls' = {}
         /\ UNCHANGED <<touch, activeTileIndex>>
    ELSE IF e.type = "touch" /\ e.n = 0
    THEN /\ handleTouchEnd
         /\ engineCalls' = {"getDimensions", "handleTouchEnd"}
    ELSE /\ handleTouchMove(ToCanvas(e.clientX, rect.left, width, rect.width),
                            ToCanvas(e.clientY, rect.top, height, rect.height), 8)
         /\ engineCalls' = {"getDimensions", "handleTouchMove"}

App_handleTouchMove(e, rect) ==
    IF ~engineRef
    THEN /\ engineCalls' = {}
         /\ UNCHANGED <<touch, activeTileIndex>>
    ELSE IF e.type = "touch" /\ e.n = 0
    THEN \* engine.getDimensions() was already read when the handler returns
         /\ engineCalls' = {"getDimensions"}
         /\ UNCHANGED <<touch, activeTileIndex>>
    ELSE /\ handleTouchMove(ToCanvas(e.clientX, rect.left, width, rect.width),
                            ToCanvas(e.clientY, rect.top, height, rect.height), 8)
         /\ engineCalls' = {"getDimensions", "handleTouchMove"}

App_handleTouchEnd ==
    IF ~engineRef
    THEN /\ engineCalls' = {}
         /\ UNCHANGED <<touch, activeTileIndex>>
    ELSE /\ handleTouchEnd
         /\ engineCalls' = {"handleTouchEnd"}

(***************************************************************************)
(* App: the mount effect, its cleanup and the frame loop.                  *)
(***************************************************************************)
Init ==
    /\ phase = "init"
    /\ engineRef = FALSE
    /\ thrown = ""
    /\ tiles = <<>>
    /\ touch = Null
    /\ activeTileIndex = Null
    /\ displaySize = <<width, height>>
    /\ resizeListener = FALSE
    /\ cleanup = FALSE
    /\ animationRef = 0
    /\ pending = {}
    /\ rafCount = 0
    /\ frame = Null
    /\ lastEvent = "none"
    /\ engineCalls = {}
    /\ downSinceEnd = FALSE
    /\ pointSinceEnd = FALSE
    /\ probe = Null

hostVars == <<resizeListener, cleanup, animationRef, pending, rafCount>>
trackerVars == <<touch, activeTileIndex>>
historyVars == <<downSinceEnd, pointSinceEnd>>

\* the body of useEffect; the host decides whether the refs are attached, whether
\* the engine's own canvas and the displayed canvas yield a 2D context, and the
\* displayed rectangle
Mount ==
    /\ phase = "init"
    /\ lastEvent' = "mount"
    /\ \E refsAttached \in BOOLEAN, engineCtx \in BOOLEAN, displayCtx \in BOOLEAN,
          rect \in Rects :
        IF ~refsAttached
        THEN /\ phase' = "noCanvas"
             /\ engineCalls' = {}
             /\ UNCHANGED <<engineRef, thrown, tiles, displaySize, hostVars>>
        ELSE IF ~engineCtx
        THEN \* new ModernUIEngine() throws out of the effect
             /\ phase' = "ctorFailed"
             /\ thrown' = "Canvas context unavailable"
             /\ engineCalls' = {"constructor"}
             /\ UNCHANGED <<engineRef, tiles, displaySize, hostVars>>
        ELSE /\ engineRef' = TRUE
             /\ tiles' = createTiles
             /\ setCanvasSize(rect.width, rect.height)
             /\ resizeListener' = TRUE
             /\ engineCalls' = {"constructor", "getDimensions", "setCanvasSize"}
             /\ UNCHANGED thrown
             /\ IF ~displayCtx
                THEN /\ phase' = "noDisplayCtx"
                     /\ UNCHANGED <<cleanup, animationRef, pending, rafCount>>
                ELSE /\ phase' = "running"
                     /\ rafCount' = rafCount + 1
                     /\ animationRef' = rafCount + 1
                     /\ pending' = pending \cup {rafCount + 1}
                     /\ cleanup' = TRUE
    /\ UNCHANGED <<trackerVars, frame, historyVars, probe>>

\* React unmounts the component and runs the cleanup the effect returned, if any
Unmount ==
    /\ phase \in {"noCanvas", "noDisplayCtx", "running"}
    /\ phase' = "unmounted"
    /\ lastEvent' = "unmount"
    /\ engineCalls' = {}
    /\ IF cleanup
       THEN /\ resizeListener' = FALSE
            /\ pending' = IF animationRef # 0 THEN pending \ {animationRef} ELSE pending
       ELSE UNCHANGED <<resizeListener, pending>>
    /\ UNCHANGED <<engineRef, thrown, tiles, trackerVars, displaySize, cleanup,
                   animationRef, rafCount, frame, historyVars, probe>>

\* the host runs a pending animation-frame callback: loop
Frame ==
    /\ rafCount < MaxFrames
    /\ \E id \in pending :
        /\ render
        /\ rafCount' = rafCount + 1
        /\ animationRef' = rafCount + 1
        /\ pending' = (pending \ {id}) \cup {rafCount + 1}
    /\ lastEvent' = "frame"
    /\ engineCalls' = {"render"}
    /\ UNCHANGED <<phase, engineRef, thrown, resizeListener, cleanup, historyVars, probe>>

\* the host fires 'resize' on window: updateCalibration
Resize ==
    /\ resizeListener
    /\ \E rect \in Rects : setCanvasSize(rect.width, rect.height)
    /\ lastEvent' = "resize"
    /\ engineCalls' = {"setCanvasSize"}
    /\ UNCHANGED <<phase, engineRef, thrown, tiles, trackerVars, hostVars, frame,
                   historyVars, probe>>

(***************************************************************************)
(* App: the canvas event bindings.  The canvas receives events while it    *)
(* is in the document.                                                     *)
(***************************************************************************)
CanvasLive == phase \in {"noDisplayCtx", "running"}

restVars == <<phase, engineRef, thrown, tiles, displaySize, hostVars, frame, probe>>

OnTouchStart ==
    /\ CanvasLive
    /\ \E rect \in Rects : \E e \in TouchEvents(rect, 1) : App_handleTouchStart(e, rect)
    /\ lastEvent' = "touchstart"
    /\ downSinceEnd' = TRUE
    /\ pointSinceEnd' = TRUE
    /\ UNCHANGED restVars

OnMouseDown ==
    /\ CanvasLive
    /\ \E rect \in Rects : \E e \in MouseEvents(rect) : App_handleTouchStart(e, rect)
    /\ lastEvent' = "mousedown"
    /\ downSinceEnd' = TRUE
    /\ pointSinceEnd' = TRUE
    /\ UNCHANGED restVars

OnTouchMove ==
    /\ CanvasLive
    /\ \E rect \in Rects : \E e \in TouchEvents(rect, 0) \cup {NoTouches} :
        /\ App_handleTouchMove(e, rect)
        /\ lastEvent' = IF e.n = 0 THEN "touchmove0" ELSE "touchmove"
        /\ pointSinceEnd' = (pointSinceEnd \/ e.n > 0)
    /\ UNCHANGED downSinceEnd
    /\ UNCHANGED restVars

OnMouseMove ==
    /\ CanvasLive
    /\ \E rect \in Rects : \E e \in MouseEvents(rect) : App_handleTouchMove(e, rect)
    /\ lastEvent' = "mousemove"
    /\ pointSinceEnd' = TRUE
    /\ UNCHANGED downSinceEnd
    /\ UNCHANGED restVars

OnTouchEnd ==
    /\ CanvasLive
    /\ App_handleTouchEnd
    /\ lastEvent' = "touchend"
    /\ downSinceEnd' = FALSE
    /\ pointSinceEnd' = FALSE
    /\ UNCHANGED restVars

OnMouseUp ==
    /\ CanvasLive
    /\ App_handleTouchEnd
    /\ lastEvent' = "mouseup"
    /\ downSinceEnd' = FALSE
    /\ pointSinceEnd' = FALSE
    /\ UNCHANGED restVars

OnMouseLeave ==
    /\ CanvasLive
    /\ App_handleTouchEnd
    /\ lastEvent' = "mouseleave"
    /\ downSinceEnd' = FALSE
    /\ pointSinceEnd' = FALSE
    /\ UNCHANGED restVars

Next ==
    \/ Mount
    \/ Unmount
    \/ Frame
    \/ Resize
    \/ OnTouchStart
    \/ OnMouseDown
    \/ OnTouchMove
    \/ OnMouseMove
    \/ OnTouchEnd
    \/ OnMouseUp
    \/ OnMouseLeave

Spec == Init /\ [][Next]_vars

(***************************************************************************)
(* Properties.  The specification's own terms: a tile's rectangle with     *)
(* its four edges inclusive, and the tiles whose rectangle holds a point.  *)
(***************************************************************************)
InRect(t, x, y) ==
    /\ t.x <= x /\ x <= t.x + t.width
    /\ t.y <= y /\ y <= t.y + t.height

\* 0-based indices of the tiles whose rectangle contains (x, y)
Holding(x, y) == {i \in 0..(Len(tiles) - 1) : InRect(tiles[i + 1], x, y)}

Least(S) == CHOOSE i \in S : \A j \in S : i <= j

EndEvents == {"touchend", "mouseup", "mouseleave"}
PointerEvents == {"touchstart", "mousedown", "touchmove", "touchmove0", "mousemove"}
                     \cup EndEvents

\* C1: after any sequence of the engine's three pointer handlers, ActiveTileIndex
\* is the index of the first tile containing the sample, and is the one value
\* null both without a sample and with a sample that no tile contains.
C1_ActiveIsFirstHoldingOrNull ==
    IF touch = Null
    THEN activeTileIndex = Null
    ELSE IF Holding(touch[1].x, touch[1].y) = {}
    THEN activeTileIndex = Null
    ELSE activeTileIndex = <<Least(Holding(touch[1].x, touch[1].y))>>

\* C2: for every point, also outside the canvas, the hit test yields the one tile
\* whose rectangle (edges inclusive) contains the point, or findIndex's "none" (-1)
\* when no rectangle contains it.
C2_HitTestUniqueInclusive ==
    touch # Null =>
        LET S == Holding(touch[1].x, touch[1].y) IN
        IF S = {}
        THEN activeTileIndex = <<0 - 1>>
        ELSE /\ Cardinality(S) = 1
             /\ activeTileIndex = <<Least(S)>>

\* the sample lies on the bottom right corner of the tile the hit test selected
C2_Witness ==
    /\ touch # Null
    /\ activeTileIndex # Null
    /\ activeTileIndex[1] >= 0
    /\ LET t == tiles[activeTileIndex[1] + 1] IN
       /\ touch[1].x = t.x + t.width
       /\ touch[1].y = t.y + t.height

\* two closed rectangles share no point
Apart(a, b) ==
    \/ a.x + a.width < b.x
    \/ b.x + b.width < a.x
    \/ a.y + a.height < b.y
    \/ b.y + b.height < a.y

\* C3: the constructed grid has exactly 21 tiles, pairwise non-overlapping with
\* inclusive edges, each inside the 1024x1024 canvas, tile[0] at (64, 280) and
\* tile[6] in the last column of row 0.
C3_GridDisjointInCanvas ==
    engineRef =>
        /\ Len(tiles) = 21
        /\ \A i, j \in 1..Len(tiles) : i # j => Apart(tiles[i], tiles[j])
        /\ \A i \in 1..Len(tiles) :
            /\ 0 <= tiles[i].x /\ tiles[i].x + tiles[i].width <= Px(1024)
            /\ 0 <= tiles[i].y /\ tiles[i].y + tiles[i].height <= Px(1024)
            /\ tiles[i].width = Px(1024 - 2 * 64 - 6 * 16) \div 7
            /\ tiles[i].height = Px(110)
            /\ tiles[i].x <= tiles[7].x
        /\ tiles[1].x = Px(64) /\ tiles[1].y = Px(280)
        /\ tiles[7].y = Px(280)
        /\ tiles[7].x + tiles[7].width = Px(1024 - 64)

C3_Witness ==
    /\ engineRef
    /\ phase = "running"
    /\ Len(tiles) = 21
    /\ tiles[7].x > tiles[6].x + tiles[6].width

\* C4 as stated: a sample is present only between a down event and the next
\* up/leave event.
C4_SampleOnlyWhileHeld == touch # Null => downSinceEnd

\* C4 amended: the tracker starts Idle, and a sample is present exactly from a
\* down event or a move event carrying a point (any mouse move, a touch move with
\* at least one touch) until the next up/leave event.
C4_SampleSincePointEvent ==
    /\ (touch # Null) <=> pointSinceEnd
    /\ phase = "init" => touch = Null

\* a mouse move with no button held created the sample
C4_Witness ==
    /\ lastEvent = "mousemove"
    /\ ~downSinceEnd
    /\ touch # Null

\* C5: touch end, mouse up and mouse leave leave the tracker Idle, sample and
\* active tile both cleared, whatever the state before.
C5_EndClearsTracker ==
    lastEvent \in EndEvents => (touch = Null /\ activeTileIndex = Null)

\* a mouse leave cleared a tracker whose active tile the last frame had drawn
C5_Witness ==
    /\ lastEvent = "mouseleave"
    /\ touch = Null
    /\ activeTileIndex = Null
    /\ frame # Null
    /\ frame[1].active = {3}

\* C6 as stated: a touch move with zero touches leaves sample and active tile as
\* they were and does not call the engine.
C6_EmptyTouchMoveCallsNothing ==
    [][lastEvent' = "touchmove0" =>
          /\ touch' = touch
          /\ activeTileIndex' = activeTileIndex
          /\ engineCalls' = {}]_vars

\* C6 amended: a touch move with zero touches leaves sample and active tile as
\* they were, in Idle and in Tracking, and calls no pointer handler of the engine:
\* the one engine method it invokes is the read-only getDimensions.
C6_EmptyTouchMoveIsNoOp ==
    [][lastEvent' = "touchmove0" =>
          /\ touch' = touch
          /\ activeTileIndex' = activeTileIndex
          /\ engineCalls' = {"getDimensions"}]_vars

\* an empty touch move ran while tile[3] was being tracked
C6_Witness ==
    /\ lastEvent = "touchmove0"
    /\ touch # Null
    /\ activeTileIndex = <<3>>

\* C7: initialization is aborted only with the descriptive error, leaving no
\* usable engine and no frame loop; nothing else raises an error.
C7_OnlyFailureIsDescriptiveAbort ==
    /\ thrown # "" => (thrown = "Canvas context unavailable" /\ phase = "ctorFailed")
    /\ phase \in {"ctorFailed", "noDisplayCtx"} =>
          /\ thrown = "Canvas context unavailable"
          /\ ~engineRef
          /\ pending = {}

\* C8: the tile at 1-based position n has the badge "NEW" iff n is 5, 10, 15 or
\* 20, every other tile (the 21st too) has none, and no pointer or render
\* operation changes the tile set.
C8_BadgeEveryFifth ==
    /\ [](engineRef =>
            /\ Len(tiles) = 21
            /\ \A n \in 1..Len(tiles) :
                /\ tiles[n].label = n
                /\ tiles[n].badge = IF n \in {5, 10, 15, 20} THEN "NEW" ELSE "")
    /\ [][lastEvent' \in PointerEvents \cup {"frame"} => tiles' = tiles]_vars

C8_Witness ==
    /\ engineRef
    /\ lastEvent = "frame"
    /\ touch # Null
    /\ tiles[20].badge = "NEW"
    /\ tiles[21].badge = ""

\* C9: every render draws background, header, status cards, tiles, keyboard and
\* then the glow; tile i is drawn active iff i is the ActiveTileIndex left by the
\* last pointer event (so at most one), the glow is drawn iff a sample exists, and
\* render leaves sample, active index and tiles unchanged.
C9_RenderShowsTracker ==
    [][lastEvent' = "frame" =>
          /\ frame'[1].layers =
                IF touch = Null
                THEN <<"background", "header", "statusCards", "tiles", "keyboard">>
                ELSE <<"background", "header", "statusCards", "tiles", "keyboard", "glow">>
          /\ \A i \in 0..(Len(tiles) - 1) :
                i \in frame'[1].active <=> (activeTileIndex # Null /\ activeTileIndex[1] = i)
          /\ frame'[1].active \subseteq 0..(Len(tiles) - 1)
          /\ Cardinality(frame'[1].active) <= 1
          /\ (touch = Null \/ Holding(touch[1].x, touch[1].y) = {}) => frame'[1].active = {}
          /\ (frame'[1].glow # Null) <=> (touch # Null)
          /\ touch # Null => frame'[1].glow = <<[x |-> touch[1].x, y |-> touch[1].y]>>
          /\ touch' = touch
          /\ activeTileIndex' = activeTileIndex
          /\ tiles' = tiles]_vars

\* a frame drew tile[3] active with the glow, after an earlier pointer event
C9_Witness ==
    /\ lastEvent = "frame"
    /\ frame # Null
    /\ frame[1].active = {3}
    /\ frame[1].glow # Null
    /\ touch # Null

\* C10: once the component is unmounted the 'resize' listener is removed and no
\* animation-frame callback is pending; at most one callback is pending at any
\* time.
C10_NothingRegisteredAfterUnmount ==
    /\ phase = "unmounted" => (~resizeListener /\ pending = {})
    /\ Cardinality(pending) <= 1

=============================================================================
